---- MODULE Spec2Model ----
(***************************************************************************)
(* Model of src/src/twitter_agent.py: the TwitterAgent posting agent.      *)
(*                                                                         *)
(* A text (a corpus line, a tweet, a generated answer) is a sequence of    *)
(* one-character strings, so that strip(), len() and slicing are the       *)
(* operations the code performs.  The process is one thread of control;    *)
(* pc is its position.  An action runs the code from one external          *)
(* interaction (a channel call, the generative backend call, time.sleep,   *)
(* the scheduler's wait) to the next.                                      *)
(***************************************************************************)
EXTENDS Integers, Sequences, FiniteSets, TLC

\* ---------------------------------------------------------------- bounds
MaxLines == 3        \* lines of the tweets file
MaxCycles == 2       \* posting cycles started by one run()
MaxTopics == 2       \* entries of ai_topics
IntervalTicks == 2   \* iterations of the 1 s polling loop between two cycles

\* ------------------------------------------------------ program constants
max_retries == 5
initial_backoff == 60
JitterMax == 10
TweetLimit == 280
TruncateAt == 277

\* ------------------------------------------------------------------ texts
Rep(c, n) == [i \in 1..n |-> c]

\* the characters str.strip() removes (those with str.isspace()); a character
\* without an escape of its own is written by its code point
Whitespace ==
    { " ", "\t", "\n", "\r", "\f", "U+000B", "U+001C", "U+001D", "U+001E", "U+001F",
      "U+0085", "U+00A0", "U+1680", "U+2000", "U+2001", "U+2002", "U+2003",
      "U+2004", "U+2005", "U+2006", "U+2007", "U+2008", "U+2009", "U+200A",
      "U+2028", "U+2029", "U+202F", "U+205F", "U+3000" }

\* str.strip(): drop leading and trailing whitespace
Strip(s) ==
    LET keep == {i \in 1..Len(s) : s[i] \notin Whitespace}
    IN  IF keep = {} THEN <<>>
        ELSE LET lo == CHOOSE i \in keep : \A j \in keep : i <= j
                 hi == CHOOSE i \in keep : \A j \in keep : j <= i
             IN  SubSeq(s, lo, hi)

Range(s) == {s[i] : i \in 1..Len(s)}

\* all sequences over S of length 0..n
RECURSIVE SeqsUpTo(_, _)
SeqsUpTo(S, n) ==
    IF n = 0 THEN {<<>>}
    ELSE LET shorter == SeqsUpTo(S, n - 1)
         IN  shorter \cup {Append(s, x) : s \in {t \in shorter : Len(t) = n - 1}, x \in S}

\* lines a tweets file is made of: a plain, a padded, a blank and an over-long
\* line; the messages they give are A, B and LongText
LongText == Rep("x", TweetLimit + 1)
FileLines ==
    { <<"A", "\n">>, <<"\t", "B", " ", "\r", "\n">>, <<" ", "\t", "U+00A0", "\n">>,
      LongText \o <<"\n">> }

\* _load_tweets: [line.strip() for line in f if line.strip()]
LoadTweets(file) ==
    LET stripped == [i \in 1..Len(file) |-> Strip(file[i])]
    IN  SelectSeq(stripped, LAMBDA t : t # <<>>)

\* ------------------------------------------------------ delivery channels
Method1Name == "API v2 (OAuth 1.0a)"
Method2Name == "API v1.1 (OAuth 1.0a)"

\* create_tweet: a response with data, a response the guard of line 180
\* rejects, TooManyRequests, or another exception
Outcomes1 == {"Ok", "NoData", "RateLimited", "AuthError", "OtherError"}
\* update_status: a status, TooManyRequests, or another exception
Outcomes2 == {"Ok", "RateLimited", "AuthError", "OtherError"}

IsFailure(o) == o \in {"AuthError", "OtherError"}

\* ------------------------------------------------- post_tweet, decisions
\* AfterMethod1 without the TooManyRequests handler of lines 184-187
AfterMethod1_NoRateLimitAbort(o) ==
    CASE o = "Ok" -> "return"
      [] OTHER    -> "method2"

\* AfterMethod1 without the return of line 183
AfterMethod1_NoReturn(o) ==
    CASE o = "RateLimited" -> "continue"
      [] OTHER             -> "method2"

\* lines 176-189: what follows the call of method 1
AfterMethod1(o) ==
    CASE o = "Ok"          -> "return"
      [] o = "RateLimited" -> "continue"
      [] OTHER             -> "method2"

\* AfterMethod2 retrying after every failure, not only after TooManyRequests
AfterMethod2_RetryAll(o) ==
    CASE o = "Ok" -> "return"
      [] OTHER    -> "continue"

\* lines 192-202: what follows the call of method 2
AfterMethod2(o) ==
    CASE o = "Ok"          -> "return"
      [] o = "RateLimited" -> "continue"
      [] OTHER             -> "check"

\* the binding of e after an "except ... as e" block has run: Python 3
\* deletes the name at the end of the block
Unbound == "<unbound>"
AfterExcept(exc) == Unbound

\* lines 205-206: if "TooManyRequests" not in str(e): break
Line205(e) ==
    IF e = Unbound THEN "UnboundLocalError"
    ELSE IF e # "RateLimited" THEN "break"
    ELSE "next"

\* the loop of line 154 running one value too far: range(max_retries + 2)
HasNextRetry_OneMore(retry) == retry <= max_retries

\* the loop of line 154 stopping one value early: range(max_retries)
HasNextRetry_OneLess(retry) == retry < max_retries - 1

\* line 154: for retry in range(max_retries + 1) has a next value
HasNextRetry(retry) == retry < max_retries

\* line 157 with a linear instead of an exponential growth
BackoffTime_Linear(retry, jitter) == initial_backoff * retry + jitter

\* line 157, with the jitter drawn by random.uniform(0, 10)
RECURSIVE Pow2(_)
Pow2(n) == IF n = 0 THEN 1 ELSE 2 * Pow2(n - 1)
BackoffTime(retry, jitter) == initial_backoff * Pow2(retry - 1) + jitter

\* line 162 without the filter
AvailableTweets_NoFilter(tweets_, used) == tweets_

\* line 162
AvailableTweets(tweets_, used) == SelectSeq(tweets_, LAMBDA t : t \notin used)

\* lines 162-166 without the reset of line 165
RetrySelection_NoClear(tweets_, used) ==
    LET available == AvailableTweets(tweets_, used)
    IN  IF available = <<>>
        THEN [used |-> used, available |-> tweets_]
        ELSE [used |-> used, available |-> available]

\* lines 162-166: the used set and the candidates after the reset test
RetrySelection(tweets_, used) ==
    LET available == AvailableTweets(tweets_, used)
    IN  IF available = <<>>
        THEN [used |-> {}, available |-> tweets_]
        ELSE [used |-> used, available |-> available]

\* the selection taking its message out of the candidate list, which after
\* line 166 is self.tweets itself
CorpusAfterRetry_Pop(tweets_, sel, i) ==
    IF sel.available = tweets_
    THEN SubSeq(tweets_, 1, i - 1) \o SubSeq(tweets_, i + 1, Len(tweets_))
    ELSE tweets_

\* lines 162-169: self.tweets after the selection of candidate i; the list is
\* only read, also when available_tweets is bound to it at line 166
CorpusAfterRetry(tweets_, sel, i) == tweets_

\* ------------------------------------------------ generate_ai_tweet, parts
\* texts the generative backend answers with
BackendTexts ==
    { <<>>, <<"\t", "G", "\r", "\n">>, Rep("g", TweetLimit),
      <<" ">> \o Rep("g", TweetLimit + 1) }

\* what chat.completions.create and the access at line 259 can do: a text,
\* an exception of the call, or a response without a usable content
BackendOutcomes ==
    {[kind |-> "text", content |-> c] : c \in BackendTexts}
    \cup {[kind |-> "raises", content |-> <<>>],
          [kind |-> "malformed", content |-> <<>>]}

Ellipsis == <<".", ".", ".">>

\* lines 259-266 cutting at 280 instead of 277 characters
GenerateText_Cut280(content) ==
    LET tweet_text == Strip(content)
    IN  IF Len(tweet_text) > TweetLimit
        THEN SubSeq(tweet_text, 1, TweetLimit) \o Ellipsis
        ELSE tweet_text

\* lines 259-266
GenerateText(content) ==
    LET tweet_text == Strip(content)
    IN  IF Len(tweet_text) > TweetLimit
        THEN SubSeq(tweet_text, 1, TruncateAt) \o Ellipsis
        ELSE tweet_text

\* line 227: the generation is attempted only with a key and a client
GenerationAvailable(client) == client

\* post_ai_tweet, lines 290-299 and 302-308
AfterAiMethod1(o) == IF o = "Ok" THEN "return" ELSE "method2"
AfterAiMethod2(o) == IF o = "Ok" THEN "return" ELSE "fail"

\* --------------------------------------------------------------- run, parts
TopicNames == {"t1", "t2"}
NoTopic == "<none>"

\* lines 324-329: the rotation is set up only for use_ai and a non-empty list
\* (<<>> stands for both None and [])
InitTopics(ua, topics) == IF ua /\ topics # <<>> THEN topics ELSE <<>>

\* line 337 left out: the index does not advance
NextTopicIndex_Stuck(idx, topics) == idx

\* line 337
NextTopicIndex(idx, topics) == (idx + 1) % Len(topics)

\* random.uniform(0, 10), sampled at its two ends
JitterValues == {0, JitterMax}

\* ------------------------------------------------------------------ state
VARIABLES
    pc,                  \* position of the process
    halt,                \* the exception that ended the process, "" if none
    tweets,              \* self.tweets
    ai_client,           \* self.ai_client is set (OPENAI_API_KEY given)
    use_ai,              \* run's use_ai
    ai_topics,           \* self.ai_topics, <<>> for None
    current_topic_index, \* self.current_topic_index: <<>> before it is set, else <<i>>
    ticks,               \* polling iterations until the job is due
    cycles,              \* scheduled_post calls so far
    tweet,               \* local tweet of post_tweet / post_ai_tweet
    used_tweets,         \* local used_tweets of post_tweet
    retry,               \* loop variable of post_tweet
    methods_tried,       \* local methods_tried
    backoff_time,        \* local backoff_time
    topic,               \* argument of post_ai_tweet
    roundOutcomes,       \* outcomes of the channel calls of this round, as logged
    backoffs,            \* time.sleep calls of this post_tweet call
    delivered,           \* successful deliveries of this call
    allLimited1,         \* every channel call of this post_tweet call was method 1
                         \* raising TooManyRequests
    result               \* how the last finished cycle ended, as logged; "none" while one runs

agentVars == <<tweets, ai_client>>
runVars == <<use_ai, ai_topics>>
locals == <<tweet, used_tweets, retry, methods_tried, backoff_time, topic>>
ghost == <<roundOutcomes, backoffs, delivered, allLimited1>>
vars == <<pc, halt, agentVars, runVars, current_topic_index, ticks, cycles,
          locals, ghost, result>>

Init ==
    /\ pc = "main"
    /\ halt = ""
    /\ tweets = <<>>
    /\ ai_client = FALSE
    /\ use_ai = FALSE
    /\ ai_topics = <<>>
    /\ current_topic_index = <<>>
    /\ ticks = 0
    /\ cycles = 0
    /\ tweet = <<>>
    /\ used_tweets = {}
    /\ retry = 0
    /\ methods_tried = <<>>
    /\ backoff_time = 0
    /\ topic = NoTopic
    /\ roundOutcomes = <<>>
    /\ backoffs = 0
    /\ delivered = 0
    /\ allLimited1 = TRUE
    /\ result = "none"

\* ------------------------------------------------------------ control flow
\* an exception leaves the cycle, run() and reaches the handler of line 382
Raise(exc) ==
    /\ pc' = "halted"
    /\ halt' = exc
    /\ UNCHANGED <<ticks, result>>

\* the cycle returns to the caller: the locals are gone, run() polls
Return(res) ==
    /\ pc' = "sched"
    /\ halt' = halt
    /\ result' = res
    /\ ticks' \in 0..IntervalTicks
    /\ tweet' = <<>>
    /\ used_tweets' = {}
    /\ retry' = 0
    /\ methods_tried' = <<>>
    /\ backoff_time' = 0
    /\ topic' = NoTopic

\* lines 209-216: the failure report, then the return
ReportFailure(brokeOut) ==
    Return(IF brokeOut THEN "AllChannelsFailed" ELSE "RateLimitExhausted")

\* the next iteration of the for loop of line 154, up to time.sleep; without
\* a next value the loop ends and the code reaches line 209
NextIteration(tried) ==
    IF HasNextRetry(retry)
    THEN /\ retry' = retry + 1
         /\ \E j \in JitterValues : backoff_time' = BackoffTime(retry + 1, j)
         /\ backoffs' = backoffs + 1
         /\ methods_tried' = tried
         /\ pc' = "pt_sleep"
         /\ UNCHANGED <<halt, ticks, result, tweet, used_tweets, topic>>
    ELSE /\ ReportFailure(FALSE)
         /\ UNCHANGED backoffs

\* post_tweet, lines 139-148 and the first pass through lines 154-173
PostTweetEntry ==
    IF tweets = <<>>
    THEN /\ Return("NoTweets")
         /\ roundOutcomes' = <<>> /\ backoffs' = 0 /\ delivered' = 0
         /\ allLimited1' = TRUE
    ELSE /\ \E i \in 1..Len(tweets) :
              /\ tweet' = tweets[i]
              /\ used_tweets' = {tweets[i]}
         /\ retry' = 0
         /\ methods_tried' = <<>>
         /\ backoff_time' = 0
         /\ topic' = NoTopic
         /\ roundOutcomes' = <<>> /\ backoffs' = 0 /\ delivered' = 0
         /\ allLimited1' = TRUE
         /\ pc' = "pt_m1"
         /\ result' = "none"
         /\ UNCHANGED <<halt, ticks>>

\* lines 229 and 271: return random.choice(self.tweets)
FallbackTweet ==
    IF tweets = <<>>
    THEN /\ pc' = "halted"
         /\ halt' = "IndexError"
         /\ tweet' = <<>>
         /\ result' = "none"
         /\ UNCHANGED ticks
    ELSE /\ \E i \in 1..Len(tweets) : tweet' = tweets[i]
         /\ pc' = "ai_m1"
         /\ result' = "none"
         /\ UNCHANGED <<halt, ticks>>

\* post_ai_tweet up to the backend call, lines 279-282 and 227-229
PostAiEntry(t) ==
    /\ topic' = t
    /\ used_tweets' = {} /\ retry' = 0 /\ methods_tried' = <<>> /\ backoff_time' = 0
    /\ roundOutcomes' = <<>> /\ backoffs' = 0 /\ delivered' = 0
    /\ allLimited1' = TRUE
    /\ IF GenerationAvailable(ai_client)
       THEN /\ pc' = "ai_gen"
            /\ tweet' = <<>>
            /\ result' = "none"
            /\ UNCHANGED <<halt, ticks>>
       ELSE FallbackTweet

\* scheduled_post, lines 332-340
ScheduledPost(ua, topics, idx) ==
    /\ cycles' = cycles + 1
    /\ IF ua
       THEN IF topics # <<>>
            THEN /\ current_topic_index' = <<NextTopicIndex(idx[1], topics)>>
                 /\ PostAiEntry(topics[idx[1] + 1])
            ELSE /\ current_topic_index' = idx
                 /\ PostAiEntry(NoTopic)
       ELSE /\ current_topic_index' = idx
            /\ PostTweetEntry

\* ---------------------------------------------------------------- actions
\* TwitterAgent(): lines 33-70, with the environment and the file as inputs;
\* the client is created (lines 52-58) before the credentials are validated
Construct ==
    /\ pc = "main"
    /\ \E credsOk \in BOOLEAN, fileExists \in BOOLEAN, key \in BOOLEAN,
          file \in SeqsUpTo(FileLines, MaxLines) :
          IF ~credsOk
          THEN /\ Raise("ValueError")
               /\ ai_client' = key
               /\ UNCHANGED tweets
          ELSE IF ~fileExists
          THEN /\ Raise("FileNotFoundError")
               /\ ai_client' = key
               /\ UNCHANGED tweets
          ELSE /\ ai_client' = key
               /\ tweets' = LoadTweets(file)
               /\ pc' = "constructed"
               /\ UNCHANGED <<halt, ticks, result>>
    /\ UNCHANGED <<runVars, current_topic_index, cycles, locals, ghost>>

\* run(use_ai, ai_topics): lines 320-346, the immediate post included
Run ==
    /\ pc = "constructed"
    /\ \E ua \in BOOLEAN, topics \in SeqsUpTo(TopicNames, MaxTopics) :
          /\ use_ai' = ua
          /\ ai_topics' = InitTopics(ua, topics)
          /\ ScheduledPost(ua, InitTopics(ua, topics),
                           IF InitTopics(ua, topics) # <<>> THEN <<0>>
                           ELSE current_topic_index)
    /\ UNCHANGED agentVars

\* the polling loop running beside a sleeping cycle, as with a job started
\* on a thread of its own
Poll_Reentrant ==
    /\ pc \in {"sched", "pt_sleep"}
    /\ IF ticks > 0
       THEN /\ ticks' = ticks - 1
            /\ UNCHANGED <<pc, halt, current_topic_index, cycles, locals, ghost, result>>
       ELSE /\ cycles < MaxCycles
            /\ ScheduledPost(use_ai, ai_topics, current_topic_index)
    /\ UNCHANGED <<agentVars, runVars>>

\* one iteration of lines 349-351: run_pending, then sleep(1)
Poll ==
    /\ pc = "sched"
    /\ IF ticks > 0
       THEN /\ ticks' = ticks - 1
            /\ UNCHANGED <<pc, halt, current_topic_index, cycles, locals, ghost, result>>
       ELSE /\ cycles < MaxCycles
            /\ ScheduledPost(use_ai, ai_topics, current_topic_index)
    /\ UNCHANGED <<agentVars, runVars>>

\* lines 175-189: the call of method 1 and what the code does with its outcome
Method1 ==
    /\ pc = "pt_m1"
    /\ \E o \in Outcomes1 :
          /\ roundOutcomes' = Append(roundOutcomes, o)
          /\ allLimited1' = (allLimited1 /\ o = "RateLimited")
          /\ CASE AfterMethod1(o) = "return" ->
                    /\ Return("Success")
                    /\ delivered' = delivered + 1
                    /\ UNCHANGED backoffs
               [] AfterMethod1(o) = "continue" ->
                    /\ NextIteration(Append(methods_tried, Method1Name))
                    /\ UNCHANGED delivered
               [] OTHER ->
                    /\ pc' = "pt_m2"
                    /\ methods_tried' = Append(methods_tried, Method1Name)
                    /\ UNCHANGED <<halt, ticks, result, tweet, used_tweets, retry,
                                   backoff_time, topic, backoffs, delivered>>
    /\ UNCHANGED <<agentVars, runVars, current_topic_index, cycles>>

\* lines 191-206: the call of method 2, its outcome, and the test of line 205
Method2 ==
    /\ pc = "pt_m2"
    /\ \E o \in Outcomes2 :
          /\ roundOutcomes' = Append(roundOutcomes, o)
          /\ allLimited1' = FALSE
          /\ CASE AfterMethod2(o) = "return" ->
                    /\ Return("Success")
                    /\ delivered' = delivered + 1
                    /\ UNCHANGED backoffs
               [] AfterMethod2(o) = "continue" ->
                    /\ NextIteration(Append(methods_tried, Method2Name))
                    /\ UNCHANGED delivered
               [] OTHER ->
                    LET test == Line205(AfterExcept(o))
                    IN  CASE test = "break" ->
                               /\ ReportFailure(TRUE)
                               /\ UNCHANGED <<backoffs, delivered>>
                          [] test = "next" ->
                               /\ NextIteration(Append(methods_tried, Method2Name))
                               /\ UNCHANGED delivered
                          [] OTHER ->
                               /\ Raise(test)
                               /\ methods_tried' = Append(methods_tried, Method2Name)
                               /\ UNCHANGED <<tweet, used_tweets, retry, backoff_time,
                                              topic, backoffs, delivered>>
    /\ UNCHANGED <<agentVars, runVars, current_topic_index, cycles>>

\* lines 159-173: time.sleep returns, a new tweet is selected for the round
Wake ==
    /\ pc = "pt_sleep"
    /\ LET sel == RetrySelection(tweets, used_tweets)
       IN  \E i \in 1..Len(sel.available) :
              /\ tweet' = sel.available[i]
              /\ used_tweets' = sel.used \cup {sel.available[i]}
              /\ tweets' = CorpusAfterRetry(tweets, sel, i)
    /\ methods_tried' = <<>>
    /\ roundOutcomes' = <<>>
    /\ pc' = "pt_m1"
    /\ UNCHANGED <<halt, ticks, result, retry, backoff_time, topic, backoffs, delivered,
                   allLimited1, ai_client, runVars, current_topic_index, cycles>>

\* generate_ai_tweet, lines 249-271: the backend call and the text returned
Generate ==
    /\ pc = "ai_gen"
    /\ \E r \in BackendOutcomes :
          IF r.kind = "text"
          THEN /\ tweet' = GenerateText(r.content)
               /\ pc' = "ai_m1"
               /\ UNCHANGED <<halt, ticks, result>>
          ELSE FallbackTweet
    /\ UNCHANGED <<used_tweets, retry, methods_tried, backoff_time, topic, ghost,
                   agentVars, runVars, current_topic_index, cycles>>

\* post_ai_tweet, lines 289-299
AiMethod1 ==
    /\ pc = "ai_m1"
    /\ \E o \in Outcomes1 :
          /\ roundOutcomes' = Append(roundOutcomes, o)
          /\ IF AfterAiMethod1(o) = "return"
             THEN /\ Return("Success")
                  /\ delivered' = delivered + 1
             ELSE /\ pc' = "ai_m2"
                  /\ methods_tried' = Append(methods_tried, Method1Name)
                  /\ UNCHANGED <<halt, ticks, result, tweet, used_tweets, retry,
                                 backoff_time, topic, delivered>>
    /\ UNCHANGED <<backoffs, allLimited1, agentVars, runVars, current_topic_index, cycles>>

\* post_ai_tweet, lines 301-311
AiMethod2 ==
    /\ pc = "ai_m2"
    /\ \E o \in Outcomes2 :
          /\ roundOutcomes' = Append(roundOutcomes, o)
          /\ IF AfterAiMethod2(o) = "return"
             THEN /\ Return("Success")
                  /\ delivered' = delivered + 1
             ELSE /\ Return("AllChannelsFailed")
                  /\ UNCHANGED delivered
    /\ UNCHANGED <<backoffs, allLimited1, agentVars, runVars, current_topic_index, cycles>>

Next ==
    \/ Construct
    \/ Run
    \/ Poll
    \/ Method1
    \/ Method2
    \/ Wake
    \/ Generate
    \/ AiMethod1
    \/ AiMethod2

Spec == Init /\ [][Next]_vars

TypeOK ==
    /\ pc \in {"main", "constructed", "sched", "pt_m1", "pt_m2", "pt_sleep",
               "ai_gen", "ai_m1", "ai_m2", "halted"}
    /\ retry \in 0..max_retries
    /\ cycles \in 0..MaxCycles

\* ------------------------------------------------------------- properties
Last(s) == s[Len(s)]
InPostTweet == pc \in {"pt_m1", "pt_m2", "pt_sleep"}
CallsChannel == pc \in {"pt_m1", "pt_m2"}
Corpus == Range(tweets)
\* a step of Wake: the selection of the message of a retry round
SelectsRetry == pc = "pt_sleep" /\ pc' = "pt_m1"

\* C1: in post_tweet a channel call that ends in TooManyRequests ends the
\* round: method 2 is not called after a rate-limited method 1, a rate-limited
\* outcome is the last one of its round, and the call goes on to the backoff
\* of the next retry round if one remains (to the failure report if none does).
C1_RateLimitAbortsRound ==
    /\ [](InPostTweet =>
            \A i \in 1..Len(roundOutcomes) :
                roundOutcomes[i] = "RateLimited" => i = Len(roundOutcomes) /\ pc = "pt_sleep")
    /\ [][(CallsChannel /\ Last(roundOutcomes') = "RateLimited") =>
            /\ pc' # "pt_m2"
            /\ tweet' = tweet \/ pc' = "sched"
            /\ IF retry < max_retries
               THEN pc' = "pt_sleep" /\ retry' = retry + 1
               ELSE pc' = "sched" /\ result' = "RateLimitExhausted"]_vars

\* method 1 was rate-limited, method 2 was not called, the backoff has begun
C1_Witness ==
    /\ pc = "pt_sleep"
    /\ roundOutcomes = <<"RateLimited">>
    /\ methods_tried = <<Method1Name>>
    /\ retry = 1

\* C2: in post_tweet a channel call that reports success is followed by the
\* return of the call, with no further channel call, backoff or retry round,
\* and no call delivers more than once.
C2_SuccessReturnsAtOnce ==
    /\ [](delivered <= 1)
    /\ [][(CallsChannel /\ Last(roundOutcomes') = "Ok") =>
            /\ pc' = "sched"
            /\ result' = "Success"
            /\ delivered' = 1
            /\ backoffs' = backoffs]_vars

\* a post_tweet call that succeeded in a retry round through method 2
C2_Witness ==
    /\ pc = "sched"
    /\ ~use_ai
    /\ result = "Success"
    /\ delivered = 1
    /\ backoffs >= 1
    /\ Len(roundOutcomes) = 2

\* C3: when both channels fail with a non-rate-limit error in the first round,
\* post_tweet returns normally with the outcome AllChannelsFailed and without
\* a backoff.
C3_AllChannelsFailedReturns ==
    (/\ ~use_ai
     /\ cycles >= 1
     /\ pc \in {"sched", "halted"}
     /\ backoffs = 0
     /\ Len(roundOutcomes) = 2
     /\ \A i \in 1..2 : IsFailure(roundOutcomes[i]))
    => (pc = "sched" /\ result = "AllChannelsFailed")

\* C4: a post_tweet call makes at most max_retries + 1 = 6 rounds and at most
\* max_retries backoffs: round retry + 1 is preceded by exactly retry backoffs.
C4_RoundsBounded ==
    /\ backoffs <= max_retries
    /\ InPostTweet =>
          /\ retry + 1 <= max_retries + 1
          /\ retry + 1 <= 6
          /\ backoffs = retry

\* the sixth round of a call, after five backoffs
C4_Witness ==
    /\ pc = "pt_m1"
    /\ retry = max_retries
    /\ backoffs = max_retries

\* C5: a post_tweet call in which every round is rate-limited sleeps after
\* each of the first 5 rounds and reports RateLimitExhausted after the 6th, so
\* the failure is reported after exactly 5 backoffs; with three distinct
\* messages in the corpus the first three rounds use three distinct messages.
C5_RateLimitExhausted ==
    /\ []((pc = "sched" /\ result = "RateLimitExhausted") =>
            /\ backoffs = max_retries
            /\ Last(roundOutcomes) = "RateLimited")
    /\ []((CallsChannel /\ Cardinality(Corpus) >= 3 /\ retry <= 2) =>
            /\ tweet \in used_tweets
            /\ Cardinality(used_tweets) = retry + 1)
    /\ [][(CallsChannel /\ Last(roundOutcomes') = "RateLimited") =>
            IF retry < max_retries
            THEN pc' = "pt_sleep" /\ backoffs' = backoffs + 1
            ELSE result' = "RateLimitExhausted" /\ backoffs' = max_retries]_vars

\* a corpus of three distinct messages: the failure report after the sixth rate-limited round
C5_Witness ==
    /\ pc = "sched"
    /\ tweets = <<(<<"A">>), (<<"B">>), LongText>>
    /\ result = "RateLimitExhausted"
    /\ backoffs = max_retries
    /\ roundOutcomes = <<"AuthError", "RateLimited">>

\* C6: a post_tweet cycle whose channels all failed does not end the process:
\* after a round in which every channel call raised, the process is not halted.
C6_CycleFailureKeepsRunning ==
    (/\ ~use_ai
     /\ cycles >= 1
     /\ roundOutcomes # <<>>
     /\ \A i \in 1..Len(roundOutcomes) :
           IsFailure(roundOutcomes[i]) \/ roundOutcomes[i] = "RateLimited")
    => pc # "halted"

\* C7: the message selected for a retry round is a corpus member, and it is
\* not in used_tweets unless used_tweets covers the corpus; for a corpus of
\* two or more distinct messages and every proper subset S of it, every
\* candidate of the selection excluding S is a corpus member outside S.
C7_NoReselection ==
    /\ [](Cardinality(Corpus) >= 2 =>
            \A S \in SUBSET Corpus :
                S # Corpus =>
                    LET sel == RetrySelection(tweets, S)
                    IN  /\ sel.available # <<>>
                        /\ sel.used = S
                        /\ Range(sel.available) = Corpus \ S)
    /\ [][SelectsRetry =>
            /\ tweet' \in Corpus
            /\ ~(Corpus \subseteq used_tweets) => tweet' \notin used_tweets]_vars

\* the second round of a call on a corpus of three: a second, new message
C7_Witness ==
    /\ pc = "pt_m1"
    /\ retry = 1
    /\ Cardinality(Corpus) = 3
    /\ Cardinality(used_tweets) = 2

\* C8: with two or more distinct messages in the corpus, the message of a
\* retry round differs from the message of the round before it.
C8_NoImmediateRepeat ==
    [][(SelectsRetry /\ Cardinality(Corpus) >= 2) => tweet' # tweet]_vars

\* C9: the retry selection always has a candidate; when used_tweets covers
\* the corpus every corpus member is a candidate and used_tweets becomes the
\* set of the one selected; used_tweets is a subset of the corpus throughout.
C9_ResetSelection ==
    /\ [](used_tweets \subseteq Corpus)
    /\ [](pc = "pt_sleep" =>
            LET sel == RetrySelection(tweets, used_tweets)
            IN  /\ sel.available # <<>>
                /\ Corpus \subseteq used_tweets => Range(sel.available) = Corpus)
    /\ [][SelectsRetry =>
            /\ tweet' \in Corpus
            /\ tweet' \in used_tweets'
            /\ Corpus \subseteq used_tweets => used_tweets' = {tweet'}]_vars

\* the third round on a corpus of two: used_tweets was cleared and holds the
\* new message only
C9_Witness ==
    /\ pc = "pt_m1"
    /\ retry = 2
    /\ Cardinality(Corpus) = 2
    /\ used_tweets = {tweet}

\* C10: every message a channel is called with has 1 to 280 characters.
C10_MessageLength ==
    pc \in {"pt_m1", "pt_m2", "ai_m1", "ai_m2"} =>
        (1 <= Len(tweet) /\ Len(tweet) <= TweetLimit)

\* C11: generate_ai_tweet does not raise: no cycle with generation ends the
\* process, and when no client is available the text returned is a member of
\* the corpus.
C11_GenerateNeverRaises ==
    (use_ai /\ cycles >= 1) =>
        /\ pc # "halted"
        /\ (pc = "ai_m1" /\ ~ai_client) => tweet \in Corpus

\* C12: the delay before retry round r is in [60 * 2^(r-1), 60 * 2^(r-1) + 10]:
\* 60, 120, 240, 480, 960 plus at most 10, without a cap, for every jitter in
\* 0..10; each delay of a call is longer than the one before it.
BackoffBase == <<60, 120, 240, 480, 960>>
C12_BackoffRange ==
    /\ [](pc = "pt_sleep" =>
            /\ retry \in 1..max_retries
            /\ backoff_time >= BackoffBase[retry]
            /\ backoff_time <= BackoffBase[retry] + 10
            /\ \A j \in 0..JitterMax :
                  /\ BackoffTime(retry, j) >= BackoffBase[retry]
                  /\ BackoffTime(retry, j) <= BackoffBase[retry] + 10)
    /\ [][(pc # "pt_sleep" /\ pc' = "pt_sleep") => backoff_time' > backoff_time]_vars

\* the fifth backoff of a call, at the top of its range
C12_Witness ==
    /\ pc = "pt_sleep"
    /\ retry = 5
    /\ backoff_time = 970

\* a finished post_tweet call in which method 1 raised TooManyRequests in
\* every round, so that method 2, whatever it would answer, was never called
LimitedScenarioDone ==
    /\ ~use_ai
    /\ pc = "sched"
    /\ allLimited1
    /\ roundOutcomes # <<>>

\* C13 as stated: with a corpus of two messages and method 1 always
\* rate-limited, method 2 (which would succeed) is reached in round 2 and the
\* call ends in Success.
C13_ScenarioSucceeds ==
    (LimitedScenarioDone /\ Cardinality(Corpus) = 2) => result = "Success"

\* C13 as amended: with method 1 always rate-limited every round is aborted
\* at method 1, method 2 is never called, round 2 uses a message other than
\* that of round 1 when the corpus has two, and the call ends in
\* RateLimitExhausted after 5 backoffs, without a delivery.
C13_ScenarioExhausts ==
    /\ []((~use_ai /\ allLimited1 /\ InPostTweet) =>
            /\ pc # "pt_m2"
            /\ Method2Name \notin Range(methods_tried))
    /\ [](LimitedScenarioDone =>
            /\ result = "RateLimitExhausted"
            /\ backoffs = max_retries
            /\ delivered = 0)
    /\ [][(SelectsRetry /\ retry = 1 /\ allLimited1 /\ Cardinality(Corpus) >= 2) =>
            tweet' # tweet]_vars

\* corpus A, B: the call has ended after six rounds aborted at method 1
C13_Witness ==
    /\ LimitedScenarioDone
    /\ tweets = <<(<<"A">>), (<<"B">>)>>
    /\ result = "RateLimitExhausted"
    /\ backoffs = max_retries

\* C14: a post_ai_tweet cycle whose generation fails (no client) proceeds as
\* post_tweet does under the same channel outcomes: every outcome of method 1
\* is handled as in post_tweet, so TooManyRequests ends the round without a
\* call of method 2 and leads to a backoff.
C14_AiCycleAsPostTweet ==
    [][(pc = "ai_m1" /\ ~ai_client /\ tweets # <<>>) =>
          /\ AfterMethod1(Last(roundOutcomes')) = "method2" <=> pc' = "ai_m2"
          /\ Last(roundOutcomes') = "RateLimited" => backoffs' = backoffs + 1]_vars

\* C15: no agent runs with an empty corpus: the construction fails, so that
\* neither run() nor a posting cycle is reached with self.tweets empty.
C15_EmptyCorpusFatal ==
    (pc # "main" /\ tweets = <<>>) => (pc = "halted" /\ cycles = 0)

\* C16: in post_tweet time.sleep is called only right after a channel call
\* that raised TooManyRequests, and only when a retry round remains: not
\* before the first round, not after a success, not after a round in which
\* the channels failed otherwise.
C16_BackoffOnlyOnRateLimit ==
    /\ [](pc = "pt_sleep" =>
            /\ roundOutcomes # <<>>
            /\ Last(roundOutcomes) = "RateLimited"
            /\ retry \in 1..max_retries)
    /\ []((CallsChannel /\ retry = 0) => backoffs = 0)
    /\ [][(backoffs' > backoffs \/ pc' = "pt_sleep") =>
            /\ CallsChannel
            /\ Last(roundOutcomes') = "RateLimited"
            /\ retry < max_retries
            /\ pc' = "pt_sleep"
            /\ backoffs' = backoffs + 1]_vars

\* the third backoff of a call, after a round in which method 1 failed and
\* method 2 was rate-limited
C16_Witness ==
    /\ pc = "pt_sleep"
    /\ roundOutcomes = <<"AuthError", "RateLimited">>
    /\ retry = 3
    /\ backoffs = 3

\* out is what C17 says generate_ai_tweet returns for the backend text c
TruncatedFrom(c, out) ==
    LET t == Strip(c)
    IN  IF Len(t) <= 280
        THEN out = t
        ELSE /\ Len(out) = 280
             /\ \A i \in 1..277 : out[i] = t[i]
             /\ \A i \in 278..280 : out[i] = "."

\* C17: for a text of the backend, generate_ai_tweet returns the stripped
\* text unchanged when it has at most 280 characters, else its first 277
\* characters followed by "...", 280 characters in all; a generated text is
\* never longer than 280.
C17_GenerateTruncates ==
    /\ [](pc = "ai_gen" => \A c \in BackendTexts : TruncatedFrom(c, GenerateText(c)))
    /\ [][(pc = "ai_gen" /\ pc' = "ai_m1" /\ tweet' \notin Corpus) =>
            /\ Len(tweet') <= 280
            /\ \E c \in BackendTexts : TruncatedFrom(c, tweet')]_vars

\* a generated text of 281 characters was cut to 277 characters and "..."
C17_Witness ==
    /\ pc = "ai_m1"
    /\ Len(tweet) = 280
    /\ tweet[277] = "g"
    /\ SubSeq(tweet, 278, 280) = <<".", ".", ".">>

\* C18: nothing of the controller survives a cycle: self.tweets keeps its
\* content and order from the construction on, through every selection and
\* reset; between two cycles no tweet, used set, retry counter or method list
\* exists; and each call starts with retry 0, no backoff, and a used set that
\* holds only the message it selects (none for post_ai_tweet).
C18_NoStateSurvives ==
    /\ [][pc # "main" => tweets' = tweets]_vars
    /\ [](pc = "sched" =>
            /\ tweet = <<>> /\ used_tweets = {} /\ retry = 0
            /\ methods_tried = <<>> /\ backoff_time = 0)
    /\ [][cycles' = cycles + 1 =>
            /\ retry' = 0 /\ backoffs' = 0 /\ methods_tried' = <<>>
            /\ pc' = "pt_m1" => (tweet' \in Corpus /\ used_tweets' = {tweet'})
            /\ pc' # "pt_m1" => used_tweets' = {}]_vars

\* the second cycle on the corpus A, B has run its six rounds, with resets of
\* the used set, and the corpus is as loaded
C18_Witness ==
    /\ pc = "sched"
    /\ cycles = 2
    /\ result = "RateLimitExhausted"
    /\ backoffs = max_retries
    /\ tweets = <<(<<"A">>), (<<"B">>)>>

InCycle == pc \in {"pt_m1", "pt_m2", "pt_sleep", "ai_gen", "ai_m1", "ai_m2"}

\* C19: cycles are serialized: scheduled_post is called only from run() at
\* startup or from the polling loop, never while a cycle is active; while
\* post_tweet sleeps the only step is the wake-up of the same cycle, the
\* polling loop does not run; so a cycle is active only between its start
\* and its end, one at a time.
C19_CyclesSerialized ==
    /\ [](InCycle => cycles >= 1)
    /\ [][cycles' # cycles =>
            /\ cycles' = cycles + 1
            /\ ~InCycle
            /\ pc \in {"constructed", "sched"}]_vars
    /\ [][pc = "pt_sleep" =>
            /\ pc' = "pt_m1"
            /\ cycles' = cycles
            /\ ticks' = ticks
            /\ retry' = retry]_vars

\* the second cycle, started by the polling loop, sleeps in a backoff
C19_Witness ==
    /\ pc = "pt_sleep"
    /\ cycles = 2
    /\ retry = 1

\* C20: with use_ai and n > 0 topics the index is in 0..n-1 and, after k
\* cycles, equals k mod n, whatever the cycles' outcomes; cycle number k + 1
\* posts with topic T[k mod n]; with use_ai and no topics every cycle posts
\* without a topic; without use_ai the index is never set and no topic is used.
C20_TopicRotation ==
    /\ ai_topics # <<>> =>
          /\ use_ai
          /\ Len(current_topic_index) = 1
          /\ current_topic_index[1] \in 0..(Len(ai_topics) - 1)
          /\ current_topic_index[1] = cycles % Len(ai_topics)
    /\ (pc \in {"ai_gen", "ai_m1", "ai_m2"} \/ (pc = "halted" /\ use_ai /\ cycles >= 1)) =>
          topic = IF ai_topics # <<>>
                  THEN ai_topics[((cycles - 1) % Len(ai_topics)) + 1]
                  ELSE NoTopic
    /\ ai_topics = <<>> => current_topic_index = <<>>
    /\ ~use_ai => topic = NoTopic

\* the second cycle of a rotation of two topics posts with the second topic,
\* and the index is back at 0
C20_Witness ==
    /\ pc = "ai_m1"
    /\ cycles = 2
    /\ ai_topics = <<"t1", "t2">>
    /\ topic = "t2"
    /\ current_topic_index = <<0>>

====
